---- MODULE Spec2Model ----
(***************************************************************************)
(* HyperCube Nano light entity (custom_components/hypercube_nano/light.py) *)
(* as a state machine: the cached entity state, the host-invoked           *)
(* operations async_update (poll), async_turn_on and async_turn_off, each  *)
(* suspended at its GET/POST, and the device outcomes they can receive.    *)
(***************************************************************************)
EXTENDS Bags, FiniteSets, Integers, Sequences, TLC

VARIABLES
    _state,           \* self._state: cached power
    _brightness,      \* self._brightness
    _effect,          \* self._effect ("None" stands for Python None)
    _rgb_color,       \* self._rgb_color
    _available,       \* self._available
    _attr_available,  \* inherited Entity._attr_available, read by Entity.available
    inflight,         \* bag of operations suspended at their GET/POST
    escaped,          \* TRUE once an exception propagated into the host
    invoked,          \* number of operations the host has invoked so far
    last,             \* the operation that completed most recently
    lookup,           \* a catalog lookup: name -> index -> name
    _session,         \* self._session: the aiohttp.ClientSession, open or closed
    close_calls,      \* number of times self._session.close() was awaited
    removals,         \* number of runs of async_will_remove_from_hass
    used_closed,      \* TRUE once get()/post() was called on the closed session
    device,           \* the device's own state: power, brightness, effect index
    replies,          \* bag of requests the device has answered, reply on its way
    flow,             \* config flow: the last call of async_step_user and its result
    entries,          \* config flow: unique ids (hosts) that have a config entry
    module,           \* which __init__.py the host loaded ("none" before loading)
    hass_data,        \* hass.data: domain -> set of keys stored under it
    entry_state,      \* config entry id -> "new" / "loaded" / "unloaded" / "failed_unload"
    last_unload       \* the last call of async_unload_entry and its result

flowVars == <<flow, entries>>

setupVars == <<module, hass_data, entry_state, last_unload>>

catalogVars == <<lookup>>

deviceVars == <<device, replies>>

sessionVars == <<_session, close_calls, removals, used_closed>>

vars == <<_state, _brightness, _effect, _rgb_color, _available,
          _attr_available, inflight, escaped, invoked, last, catalogVars,
          sessionVars, deviceVars, flowVars, setupVars>>

----------------------------------------------------------------------------
(* Bounds *)

MaxInFlight == 2     \* operations the host lets overlap on one entity
MaxInvoked == 3      \* operations the host invokes in one run
MaxRemovals == 2     \* runs of the removal hook in one run

----------------------------------------------------------------------------
(* Catalog *)

EFFECT_LIST == <<
    "Mode: Kaleidoscopic", "Mode: Calm", "Mode: Sound Reactive", "Hyper-Rainbow",
    "Supernova", "Entropy Engine", "Photonic Accelerator", "Grand Prismatic",
    "Orbital Loop", "Strange Attractor", "Warp Core", "Chromatic Precession",
    "Singularity", "Time Warp", "Gamma Ray Burst", "Gravitational Wave",
    "Divergence", "Superconductor", "Achromatic Shift", "Prismatic Pulse",
    "Dazzle Blaster", "Hyperbolic Manifold", "Core Collapse", "Atomic Generator",
    "Flux Capacitor", "Quasar", "Stellar Reactor", "Rainbow Cannon",
    "Solar Flare", "Cosmic Rays", "Ionization", "Fusion Core",
    "Hypernova", "Superluminal", "Superposition", "Chromatic Wave",
    "Pulsar", "Quantum Instability", "Dielectric Breakdown", "Photonic Pulse",
    "Luminous Scatter", "Magnetar", "Scintillation", "Breathing",
    "Continuum", "Dynamo", "Comets", "Synchrotron",
    "Phase Wipe", "Nucleus", "Twinkle", "Prismatic Alignment",
    "Stable Isotope", "Luminous Ether", "Photonic Core", "Equilibration",
    "Plasma Field", "Serenity", "Chromatic Flux", "Convergence",
    "Shimmer", "Celestial", "Zenith", "Ignition",
    "Pacifica", "Spectral Shift", "Solid", "Harmonic Accelerator",
    "Sonic Superposition", "Sonic Sparkle", "Spectrogram Alpha", "Resonant Precession",
    "Aural Dynamo", "Hypersonic", "Resonance Engine", "Rainbow Symphony",
    "Melodic Fusion", "Spectrogram Beta", "Ultrasonic Arc", "Rhythmic Orbital",
    "Tonal Entanglement", "Synesthesia", "Spectrogram Delta", "Chromatic Soundwave",
    "Harmonic Ripple", "Sonic Superconductor", "Spectrogram Gamma", "Dynamic Precession",
    "Light Sound Dance", "Beat Shift", "Phase Helix", "Symphonic Wave",
    "Sound Smash", "Hypersonic Orbit", "Achromatic Harmony", "Acoustic Ignition",
    "Ultra Sound", "Spectral Resonator" >>

\* len(EFFECT_LIST)
EffectCount == Len(EFFECT_LIST)

\* `effect in EFFECT_LIST`
InEffectList(name) == \E i \in 1..EffectCount : EFFECT_LIST[i] = name

\* a lookup that returns the 1-based position
EffectIndexOneBased(name) ==
    CHOOSE i \in 1..EffectCount :
        /\ EFFECT_LIST[i] = name
        /\ \A j \in 1..(i - 1) : EFFECT_LIST[j] # name

\* EFFECT_LIST.index(effect): 0-based position of the first occurrence
EffectIndex(name) ==
    (CHOOSE i \in 1..EffectCount :
        /\ EFFECT_LIST[i] = name
        /\ \A j \in 1..(i - 1) : EFFECT_LIST[j] # name) - 1

\* EFFECT_LIST[i] with Python list indexing: 0-based, a negative index
\* counts from the end, anything outside -len..len-1 raises IndexError.
ListIndexInRange(i) == (-EffectCount) <= i /\ i < EffectCount

\* indexing that takes the wire index as 1-based
ListGetItemOneBased(i) ==
    IF i >= 1 THEN EFFECT_LIST[i] ELSE EFFECT_LIST[EffectCount + i]

ListGetItem(i) ==
    IF i >= 0 THEN EFFECT_LIST[i + 1] ELSE EFFECT_LIST[EffectCount + i + 1]

----------------------------------------------------------------------------
(* Exceptions *)

\* aiohttp.ClientError and the subclass response.json() raises on a
\* non-JSON content type
ClientErrors == {"ClientError", "ContentTypeError"}

\* does `except <clause>` catch exception exc
Catches(clause, exc) ==
    CASE clause = "aiohttp.ClientError"  -> exc \in ClientErrors
      [] clause = "asyncio.TimeoutError" -> exc = "TimeoutError"
      [] clause = "Exception"            -> TRUE
      [] OTHER                           -> FALSE

----------------------------------------------------------------------------
(* Values the operations are exercised with *)

None == "None"
DefaultBrightness == 254
White == <<255, 255, 255>>
Red == <<255, 0, 0>>

\* the cached attributes as one record
Snapshot == [state |-> _state, brightness |-> _brightness, effect |-> _effect,
             rgb_color |-> _rgb_color, available |-> _available]

\* effect indices a device reports: in range, the catalog length, far out
\* of range, and negative ones
FxValues == {5, EffectCount, 9999, -1, -(EffectCount + 1)}

ColValues == {<<>>, <<Red>>}

\* seg[0] objects with every combination of present/absent "col" and "fx"
Segments ==
    {<<>>}
    \cup {[col |-> col] : col \in ColValues}
    \cup {[fx |-> fx] : fx \in FxValues}
    \cup {[col |-> col, fx |-> fx] : col \in ColValues, fx \in FxValues}

\* "state" objects: required keys missing, no "seg", empty "seg", one segment
StateObjects ==
    {<<>>, [bri |-> 200]}
    \cup {[on |-> on] : on \in BOOLEAN}
    \cup {[on |-> on, bri |-> 200] : on \in BOOLEAN}
    \cup {[on |-> on, bri |-> 200, seg |-> <<>>] : on \in BOOLEAN}
    \cup {[on |-> on, bri |-> 200, seg |-> <<s>>] : on \in BOOLEAN, s \in Segments}

\* what a GET /json can come back with: session.get() or response.json()
\* raising, or a parsed JSON object
GetOutcomes ==
    {[kind |-> "raise", exc |-> e] :
        e \in {"ClientError", "TimeoutError", "JSONDecodeError", "ContentTypeError"}}
    \cup {[kind |-> "json", data |-> <<>>]}
    \cup {[kind |-> "json", data |-> [state |-> st]] : st \in StateObjects}

\* what a POST /json can come back with: session.post() raising, or a
\* response with a status whose body read (text() / json()) may raise
PostOutcomes ==
    {[kind |-> "raise", exc |-> e] : e \in {"ClientError", "TimeoutError"}}
    \cup {[kind |-> "response", status |-> st, body_exc |-> "none"] : st \in {200, 404, 500}}
    \cup {[kind |-> "response", status |-> 500, body_exc |-> "ClientError"]}
    \cup {[kind |-> "response", status |-> 200, body_exc |-> e] :
            e \in {"JSONDecodeError", "ContentTypeError"}}

\* **kwargs of async_turn_on
TurnOnKwargs ==
    { <<>>,
      [brightness |-> 100],
      [effect |-> "Entropy Engine"],
      [effect |-> "Bogus"],
      [brightness |-> 100, effect |-> "Entropy Engine", transition |-> 1000] }

\* hosts a user enters in the config flow
Hosts == {"10.0.0.1", "10.0.0.2", "10.0.0.3"}

\* ids of the config entries the host sets up and unloads
EntryIds == {"entry_a", "entry_b", "entry_c"}

\* **kwargs of async_turn_off
TurnOffKwargs == { <<>>, [transition |-> 1000] }

----------------------------------------------------------------------------
(* async_update *)

\* line 293: the guard in front of EFFECT_LIST[fx_index]
FxGuard(fx_index) == fx_index < EffectCount

\* lines 284-294: the assignments made from the parsed body, in order; exc
\* names the exception that interrupted them ("none" when they ran through)
Translate(c, data) ==
    IF "state" \notin DOMAIN data THEN [c |-> c, exc |-> "KeyError"]
    ELSE LET st == data["state"] IN
    IF "on" \notin DOMAIN st THEN [c |-> c, exc |-> "KeyError"]
    ELSE LET c1 == [c EXCEPT !.state = st["on"]] IN
    IF "bri" \notin DOMAIN st THEN [c |-> c1, exc |-> "KeyError"]
    ELSE LET c2 == [c1 EXCEPT !.brightness = st["bri"]] IN
    IF ~("seg" \in DOMAIN st /\ Len(st["seg"]) > 0) THEN [c |-> c2, exc |-> "none"]
    ELSE LET segment == st["seg"][1]
             c3 == IF "col" \in DOMAIN segment /\ Len(segment["col"]) > 0
                   THEN [c2 EXCEPT !.rgb_color = segment["col"][1]]
                   ELSE c2
         IN
    IF "fx" \notin DOMAIN segment THEN [c |-> c3, exc |-> "none"]
    ELSE LET fx_index == segment["fx"] IN
    IF ~FxGuard(fx_index) THEN [c |-> c3, exc |-> "none"]
    ELSE IF ~ListIndexInRange(fx_index) THEN [c |-> c3, exc |-> "IndexError"]
    ELSE [c |-> [c3 EXCEPT !.effect = ListGetItem(fx_index)], exc |-> "none"]

\* an async_update that flips availability on every successful poll
AsyncUpdateFlipAvailable(c, resp) ==
    LET r == IF resp.kind = "raise" THEN [c |-> c, exc |-> resp.exc]
             ELSE Translate(c, resp.data)
    IN  IF r.exc = "none"
        THEN [c |-> [r.c EXCEPT !.available = ~c.available], result |-> "ok"]
        ELSE [c |-> [r.c EXCEPT !.available = FALSE], result |-> "failed"]

\* line 298: the except clauses around the body of async_update
UpdateHandlers == {"Exception"}

\* lines 276-300: the whole of async_update on outcome resp of its GET
AsyncUpdate(c, resp) ==
    LET r == IF resp.kind = "raise" THEN [c |-> c, exc |-> resp.exc]
             ELSE Translate(c, resp.data)
    IN  IF r.exc = "none"
        THEN [c |-> [r.c EXCEPT !.available = TRUE], result |-> "ok"]
        ELSE IF \E h \in UpdateHandlers : Catches(h, r.exc)
        THEN [c |-> [r.c EXCEPT !.available = FALSE], result |-> "failed"]
        ELSE [c |-> r.c, result |-> "raised"]

----------------------------------------------------------------------------
(* _send_command, async_turn_on, async_turn_off *)

\* a status test that only rejects client errors
StatusOkBelow500(status) == status = 200 \/ status >= 500

\* line 223: the status test
StatusOk(status) == status = 200

\* the except clauses without the catch-all
SendHandlersNoCatchAll == {"aiohttp.ClientError", "asyncio.TimeoutError"}

\* lines 232-237: the except clauses of _send_command
SendHandlers == {"aiohttp.ClientError", "asyncio.TimeoutError", "Exception"}

\* lines 212-240: _send_command on outcome out of its POST; ret is the
\* returned bool, available the value of self._available afterwards
SendCommand(avail, out) ==
    LET exc == IF out.kind = "raise" THEN out.exc ELSE out.body_exc
    IN  IF exc = "none"
        THEN [ret |-> StatusOk(out.status), available |-> avail, result |-> "returned"]
        ELSE IF \E h \in SendHandlers : Catches(h, exc)
        THEN [ret |-> FALSE, available |-> FALSE, result |-> "returned"]
        ELSE [ret |-> FALSE, available |-> avail, result |-> "raised"]

\* lines 244-255: the command body async_turn_on builds
TurnOnData(c, kwargs) ==
    LET d0 == [on |-> TRUE, bri |-> c.brightness]
        d1 == IF "brightness" \in DOMAIN kwargs
              THEN [d0 EXCEPT !.bri = kwargs["brightness"]] ELSE d0
        d2 == IF "effect" \in DOMAIN kwargs /\ InEffectList(kwargs["effect"])
              THEN d1 @@ [seg |-> <<[fx |-> EffectIndex(kwargs["effect"])]>>]
              ELSE d1
    IN  IF "transition" \in DOMAIN kwargs
        THEN d2 @@ [transition |-> kwargs["transition"]] ELSE d2

\* lines 258-262: the cache update after _send_command returned True
TurnOnApply(c, kwargs) ==
    LET c1 == [c EXCEPT !.state = TRUE]
        c2 == IF "brightness" \in DOMAIN kwargs
              THEN [c1 EXCEPT !.brightness = kwargs["brightness"]] ELSE c1
    IN  IF "effect" \in DOMAIN kwargs
        THEN [c2 EXCEPT !.effect = kwargs["effect"]] ELSE c2

\* a command body that drops the transition
TurnOffDataNoTransition(kwargs) == [on |-> FALSE]

\* lines 267-270: the command body async_turn_off builds
TurnOffData(kwargs) ==
    IF "transition" \in DOMAIN kwargs
    THEN [on |-> FALSE, transition |-> kwargs["transition"]]
    ELSE [on |-> FALSE]

\* line 273: the cache update after _send_command returned True
TurnOffApply(c) == [c EXCEPT !.state = FALSE]

\* a command that polls after its POST
CommandRequestsWithPoll == <<"POST", "GET">>

\* lines 218-222: the requests one command issues before it completes
CommandRequests == <<"POST">>

\* lines 279-282: the requests one poll issues
UpdateRequests == <<"GET">>

\* lines 257-263 and 272-274: the part of a command after its POST
CompleteCommand(c, t, out) ==
    LET s == SendCommand(c.available, out)
        c1 == [c EXCEPT !.available = s.available]
    IN  IF s.result = "raised" THEN [c |-> c1, result |-> "raised"]
        ELSE IF ~s.ret THEN [c |-> c1, result |-> "failed"]
        ELSE [c |-> IF t.op = "turn_on" THEN TurnOnApply(c1, t.kwargs)
                    ELSE TurnOffApply(c1),
              result |-> "ok"]

----------------------------------------------------------------------------
(* The state machine *)

\* lines 166-178: __init__
Init ==
    /\ _state = FALSE
    /\ _brightness = DefaultBrightness
    /\ _effect = None
    /\ _rgb_color = White
    /\ _available = TRUE
    /\ _attr_available = TRUE
    /\ inflight = EmptyBag
    /\ escaped = FALSE
    /\ invoked = 0
    /\ last = [op |-> "none"]
    /\ lookup = [stage |-> "idle"]
    /\ _session = "open"
    /\ close_calls = 0
    /\ removals = 0
    /\ used_closed = FALSE
    /\ device = [on |-> FALSE, bri |-> 200, fx |-> 0]
    /\ replies = EmptyBag
    /\ flow = [type |-> "none"]
    /\ entries = {}
    /\ module = "none"
    /\ hass_data = <<>>
    /\ entry_state = [e \in EntryIds |-> "new"]
    /\ last_unload = [entry |-> "none"]

InFlightCount == BagCardinality(inflight) + BagCardinality(replies)

\* what a request can come back with, given the session it was made on: a
\* call on a closed session raises RuntimeError before anything is sent, and
\* a request still pending when the session is closed loses its connection
SessionOutcomes(t, outcomes) ==
    IF t.session = "closed" THEN {[kind |-> "raise", exc |-> "RuntimeError"]}
    ELSE IF _session = "closed" THEN {[kind |-> "raise", exc |-> "ClientError"]}
    ELSE outcomes

GetOutcomesFor(t) == SessionOutcomes(t, GetOutcomes)

PostOutcomesFor(t) == SessionOutcomes(t, PostOutcomes)

Launch(t) ==
    /\ InFlightCount < MaxInFlight
    /\ invoked < MaxInvoked
    /\ invoked' = invoked + 1
    /\ inflight' = inflight (+) SetToBag({t @@ [session |-> _session]})
    /\ used_closed' = (used_closed \/ _session = "closed")
    /\ UNCHANGED <<_state, _brightness, _effect, _rgb_color, _available,
                   _attr_available, escaped, last, catalogVars,
                   _session, close_calls, removals, deviceVars,
                   flowVars, setupVars>>

Resume(t, r, out) ==
    /\ _state' = r.c.state
    /\ _brightness' = r.c.brightness
    /\ _effect' = r.c.effect
    /\ _rgb_color' = r.c.rgb_color
    /\ _available' = r.c.available
    /\ escaped' = (escaped \/ r.result = "raised")
    /\ last' = [op |-> t.op, kwargs |-> t.kwargs, reqs |-> t.reqs,
                outcome |-> out, pre |-> Snapshot, result |-> r.result]
    /\ UNCHANGED <<_attr_available, invoked, catalogVars, sessionVars,
                   flowVars, setupVars>>

Finish(t, r, out) ==
    /\ Resume(t, r, out)
    /\ inflight' = inflight (-) SetToBag({t})
    /\ UNCHANGED deviceVars

\* async_update up to its GET
StartUpdate ==
    Launch([op |-> "poll", kwargs |-> <<>>, data |-> <<>>, reqs |-> UpdateRequests])

\* async_update from the GET's outcome on
FinishUpdate ==
    \E t \in BagToSet(inflight) : \E resp \in GetOutcomesFor(t) :
        /\ t.op = "poll"
        /\ Finish(t, AsyncUpdate(Snapshot, resp), resp)

\* async_turn_on up to its POST
StartTurnOn ==
    \E kwargs \in TurnOnKwargs :
        Launch([op |-> "turn_on", kwargs |-> kwargs,
                data |-> TurnOnData(Snapshot, kwargs), reqs |-> CommandRequests])

\* async_turn_on from the POST's outcome on
FinishTurnOn ==
    \E t \in BagToSet(inflight) : \E out \in PostOutcomesFor(t) :
        /\ t.op = "turn_on"
        /\ Finish(t, CompleteCommand(Snapshot, t, out), out)

\* async_turn_off up to its POST
StartTurnOff ==
    \E kwargs \in TurnOffKwargs :
        Launch([op |-> "turn_off", kwargs |-> kwargs,
                data |-> TurnOffData(kwargs), reqs |-> CommandRequests])

\* async_turn_off from the POST's outcome on
FinishTurnOff ==
    \E t \in BagToSet(inflight) : \E out \in PostOutcomesFor(t) :
        /\ t.op = "turn_off"
        /\ Finish(t, CompleteCommand(Snapshot, t, out), out)

Next ==
    \/ StartUpdate
    \/ FinishUpdate
    \/ StartTurnOn
    \/ FinishTurnOn
    \/ StartTurnOff
    \/ FinishTurnOff

Spec == Init /\ [][Next]_vars

entityVars == <<_state, _brightness, _effect, _rgb_color, _available,
                _attr_available, inflight, escaped, invoked, last, sessionVars,
                deviceVars>>

lightVars == <<entityVars, catalogVars>>

----------------------------------------------------------------------------
(* The entity with its removal from the host *)

\* line 305: hasattr(self, '_session') and self._session; the attribute is
\* set in __init__ and never cleared, and a ClientSession object is truthy
\* whether open or closed
SessionGuard == _session \in {"open", "closed"}

\* lines 302-307: async_will_remove_from_hass
WillRemoveFromHass ==
    /\ removals < MaxRemovals
    /\ removals' = removals + 1
    /\ IF SessionGuard
       THEN /\ _session' = "closed"
            /\ close_calls' = close_calls + 1
       ELSE UNCHANGED <<_session, close_calls>>
    /\ UNCHANGED <<_state, _brightness, _effect, _rgb_color, _available,
                   _attr_available, inflight, escaped, invoked, last,
                   used_closed, catalogVars, deviceVars, flowVars, setupVars>>

NextTeardown == Next \/ WillRemoveFromHass

SpecTeardown == Init /\ [][NextTeardown]_vars

----------------------------------------------------------------------------
(* The entity against a device that answers every request: a request is *)
(* first handled by the device, and its reply reaches the entity later  *)

\* GET /json: the device reports its state
DeviceReport ==
    [kind |-> "json",
     data |-> [state |-> [on |-> device.on, bri |-> device.bri,
                          seg |-> <<[fx |-> device.fx]>>]]]

\* POST /json: the device takes over the keys the command body carries
DeviceApply(data) ==
    [on  |-> data.on,
     bri |-> IF "bri" \in DOMAIN data THEN data.bri ELSE device.bri,
     fx  |-> IF "seg" \in DOMAIN data THEN data.seg[1].fx ELSE device.fx]

\* the 200 with a JSON acknowledgement a command gets
DeviceAck == [kind |-> "response", status |-> 200, body_exc |-> "none"]

\* the device handles one pending request
DeviceServe ==
    \E t \in BagToSet(inflight) :
        /\ inflight' = inflight (-) SetToBag({t})
        /\ IF t.op = "poll"
           THEN /\ replies' = replies (+) SetToBag({[task |-> t, resp |-> DeviceReport]})
                /\ UNCHANGED device
           ELSE /\ replies' = replies (+) SetToBag({[task |-> t, resp |-> DeviceAck]})
                /\ device' = DeviceApply(t.data)
        /\ UNCHANGED <<_state, _brightness, _effect, _rgb_color, _available,
                       _attr_available, escaped, invoked, last, catalogVars,
                       sessionVars, flowVars, setupVars>>

\* async_update resumes with the device's reply
DeliverUpdate ==
    \E m \in BagToSet(replies) :
        /\ m.task.op = "poll"
        /\ Resume(m.task, AsyncUpdate(Snapshot, m.resp), m.resp)
        /\ replies' = replies (-) SetToBag({m})
        /\ UNCHANGED <<inflight, device>>

\* async_turn_on / async_turn_off resumes with the device's reply
DeliverCommand ==
    \E m \in BagToSet(replies) :
        /\ m.task.op \in {"turn_on", "turn_off"}
        /\ Resume(m.task, CompleteCommand(Snapshot, m.task, m.resp), m.resp)
        /\ replies' = replies (-) SetToBag({m})
        /\ UNCHANGED <<inflight, device>>

NextDevice ==
    \/ StartUpdate
    \/ StartTurnOn
    \/ StartTurnOff
    \/ DeviceServe
    \/ DeliverUpdate
    \/ DeliverCommand

SpecDevice == Init /\ [][NextDevice]_vars

----------------------------------------------------------------------------
(* config_flow.py: ConfigFlow.async_step_user *)

\* what the validation GET can come back with: session.get() raising, or a
\* response with a status whose body response.json() may fail to parse
ValidationOutcomes ==
    {[kind |-> "raise", exc |-> e] : e \in {"ClientError", "TimeoutError"}}
    \cup {[kind |-> "response", status |-> st, body_exc |-> e] :
            st \in {200, 404, 500},
            e \in {"none", "ContentTypeError", "JSONDecodeError"}}

\* line 42: the except clause of async_step_user
FlowHandlers == {"Exception"}

\* lines 28-41: the exception the try block ends with ("none" when it
\* reaches async_create_entry): the GET and response.json(), then
\* _abort_if_unique_id_configured, which raises AbortFlow for a known host
FlowTryBlock(host, out) ==
    IF out.kind = "raise" THEN out.exc
    ELSE IF out.body_exc # "none" THEN out.body_exc
    ELSE IF host \in entries THEN "AbortFlow"
    ELSE "none"

\* lines 22-25, 46-54: the step called without input shows the empty form
StepUserShowForm ==
    /\ flow' = [type |-> "form", input |-> None, errors |-> <<>>,
                before |-> entries]
    /\ UNCHANGED <<entries, setupVars, lightVars>>

\* lines 26-54: the step called with the user's input
StepUserSubmit ==
    \E host \in Hosts, out \in ValidationOutcomes :
        LET exc == FlowTryBlock(host, out) IN
        /\ \/ /\ exc = "none"
              /\ entries' = entries \cup {host}
              /\ flow' = [type |-> "create_entry", input |-> host, outcome |-> out,
                          errors |-> <<>>, before |-> entries]
           \/ /\ exc # "none"
              /\ \E h \in FlowHandlers : Catches(h, exc)
              /\ entries' = entries
              /\ flow' = [type |-> "form", input |-> host, outcome |-> out,
                          errors |-> [base |-> "cannot_connect"], before |-> entries]
        /\ UNCHANGED <<setupVars, lightVars>>

NextConfigFlow == StepUserShowForm \/ StepUserSubmit

SpecConfigFlow == Init /\ [][NextConfigFlow]_vars

----------------------------------------------------------------------------
(* The two __init__.py of the repository: async_setup_entry and *)
(* async_unload_entry                                            *)

\* const.py line 4
DOMAIN_NAME == "hypercube_nano"

\* the host imports one of the two modules
LoadIntegration ==
    /\ module = "none"
    /\ module' \in {"root", "component"}
    /\ UNCHANGED <<hass_data, entry_state, last_unload, flowVars, lightVars>>

\* hass.data.setdefault(DOMAIN, {})
SetDefault(data) ==
    IF DOMAIN_NAME \in DOMAIN data THEN data ELSE (DOMAIN_NAME :> {}) @@ data

\* lines 15-23 of both files: async_setup_entry
SetupEntry ==
    \E e \in EntryIds :
        /\ module # "none"
        /\ entry_state[e] \in {"new", "unloaded"}
        /\ hass_data' = SetDefault(hass_data)
        /\ entry_state' = [entry_state EXCEPT ![e] = "loaded"]
        /\ UNCHANGED <<module, last_unload, flowVars, lightVars>>

\* dict.pop(key): KeyError when the key is absent
DictPop(keys, key) ==
    IF key \in keys THEN [keys |-> keys \ {key}, exc |-> "none"]
    ELSE [keys |-> keys, exc |-> "KeyError"]

\* dict.pop(key, None)
DictPopDefault(keys, key) == [keys |-> keys \ {key}, exc |-> "none"]

\* src/__init__.py lines 25-30: async_unload_entry; ret is the value of
\* unload_ok the return statement carries, raised tells that it was not reached
UnloadEntryRoot(data, e, unload_ok) ==
    IF unload_ok
    THEN LET p == DictPop(data[DOMAIN_NAME], e) IN
         [data |-> [data EXCEPT ![DOMAIN_NAME] = p.keys],
          raised |-> p.exc # "none", ret |-> unload_ok]
    ELSE [data |-> data, raised |-> FALSE, ret |-> unload_ok]

\* custom_components/hypercube_nano/__init__.py lines 25-34: async_unload_entry
UnloadEntryComponent(data, e, unload_ok) ==
    IF unload_ok
    THEN LET p == DictPopDefault(data[DOMAIN_NAME], e) IN
         [data |-> [data EXCEPT ![DOMAIN_NAME] = p.keys],
          raised |-> p.exc # "none", ret |-> unload_ok]
    ELSE [data |-> data, raised |-> FALSE, ret |-> unload_ok]

\* async_unload_entry of the loaded module, for either result of the light
\* platform's unload
UnloadEntry ==
    \E e \in EntryIds, unload_ok \in BOOLEAN :
        LET r == IF module = "root" THEN UnloadEntryRoot(hass_data, e, unload_ok)
                 ELSE UnloadEntryComponent(hass_data, e, unload_ok)
        IN  /\ module # "none"
            /\ entry_state[e] = "loaded"
            /\ hass_data' = r.data
            /\ entry_state' = [entry_state EXCEPT ![e] =
                                  IF r.raised \/ ~r.ret THEN "failed_unload"
                                  ELSE "unloaded"]
            /\ last_unload' = [entry |-> e, module |-> module, unload_ok |-> unload_ok,
                               raised |-> r.raised, ret |-> r.ret]
            /\ UNCHANGED <<module, flowVars, lightVars>>

NextSetup == LoadIntegration \/ SetupEntry \/ UnloadEntry

SpecSetup == Init /\ [][NextSetup]_vars

----------------------------------------------------------------------------
(* The catalog on its own: the lookup async_turn_on makes, then the one *)
(* async_update makes                                                   *)

\* names a caller may ask for
RequestedNames == {EFFECT_LIST[i] : i \in 1..EffectCount} \cup {"Bogus"}

\* lines 250-252: name to wire index, for names that pass the membership test
NameToIndex ==
    \E name \in RequestedNames :
        /\ lookup.stage \in {"idle", "named"}
        /\ InEffectList(name)
        /\ lookup' = [stage |-> "indexed", name |-> name, index |-> EffectIndex(name)]
        /\ UNCHANGED <<entityVars, flowVars, setupVars>>

\* lines 292-294: wire index back to a name
IndexToName ==
    /\ lookup.stage = "indexed"
    /\ FxGuard(lookup.index)
    /\ ListIndexInRange(lookup.index)
    /\ lookup' = [stage |-> "named", name |-> lookup.name, index |-> lookup.index,
                  back |-> ListGetItem(lookup.index)]
    /\ UNCHANGED <<entityVars, flowVars, setupVars>>

NextCatalog == NameToIndex \/ IndexToName

SpecCatalog == Init /\ [][NextCatalog]_vars

----------------------------------------------------------------------------
(* What the host platform reads *)

\* lines 192-210: the properties the class defines
is_on == _state
brightness == _brightness
rgb_color == _rgb_color
effect == _effect

\* lines 158-178: the class defines no `available` property and never
\* assigns _attr_available, so the host reads the inherited Entity.available
available == _attr_available

----------------------------------------------------------------------------
(* Properties *)

Commands == {"turn_on", "turn_off"}

\* the POST of the last command did not come back with HTTP 200
PostFailed(out) == out.kind = "raise" \/ out.status # 200

\* the GET of the last poll delivered a body with state.on and state.bri
HasRequiredKeys(resp) ==
    /\ resp.kind = "json"
    /\ "state" \in DOMAIN resp.data
    /\ {"on", "bri"} \subseteq DOMAIN resp.data.state

\* the body carries segment 0
HasSegment(resp) ==
    /\ HasRequiredKeys(resp)
    /\ "seg" \in DOMAIN resp.data.state
    /\ Len(resp.data.state.seg) > 0

\* C1: a turn_on or turn_off that completed changed cached power,
\* brightness or effect only if its POST returned HTTP 200.
C1_CommandChangesOnlyOn200 ==
    (/\ last.op \in Commands
     /\ \/ _state # last.pre.state
        \/ _brightness # last.pre.brightness
        \/ _effect # last.pre.effect)
    => (last.outcome.kind = "response" /\ last.outcome.status = 200)

\* a turn_on whose POST returned HTTP 500 completed on a cache that was off
C1_Witness ==
    /\ last.op = "turn_on"
    /\ last.outcome.kind = "response"
    /\ last.outcome.status = 500
    /\ "brightness" \in DOMAIN last.kwargs
    /\ last.pre.state = FALSE
    /\ _state = FALSE

\* C2: a turn_on or turn_off whose POST failed (non-200 status, network
\* fault, timeout) leaves cached power unchanged and available false.
C2_FailedCommandMarksUnavailable ==
    (last.op \in Commands /\ PostFailed(last.outcome))
    => (_state = last.pre.state /\ _available = FALSE)

\* C3: after a failed poll every cached attribute has the value it had
\* before the poll, and available is false.
C3_FailedPollRetainsSnapshot ==
    (last.op = "poll" /\ last.result # "ok")
    => /\ _state = last.pre.state
       /\ _brightness = last.pre.brightness
       /\ _rgb_color = last.pre.rgb_color
       /\ _effect = last.pre.effect
       /\ _available = FALSE

\* C4: whenever the entity is unavailable the availability the host reads
\* is false, while is_on, brightness, rgb_color and effect return the
\* cached values.
C4_HostSeesUnavailable ==
    (_available = FALSE)
    => /\ available = FALSE
       /\ is_on = _state
       /\ brightness = _brightness
       /\ rgb_color = _rgb_color
       /\ effect = _effect

\* C5: a turn_on whose POST returned HTTP 200 leaves the entity On with the
\* requested brightness and effect merged into the cache and available
\* true, whatever the availability was before.
C5_TurnOnSuccessMarksAvailable ==
    (/\ last.op = "turn_on"
     /\ last.outcome.kind = "response"
     /\ last.outcome.status = 200
     /\ last.outcome.body_exc = "none")
    => /\ _state = TRUE
       /\ _brightness = (IF "brightness" \in DOMAIN last.kwargs
                         THEN last.kwargs.brightness ELSE last.pre.brightness)
       /\ _effect = (IF "effect" \in DOMAIN last.kwargs
                     THEN last.kwargs.effect ELSE last.pre.effect)
       /\ _available = TRUE

\* C6: after a successful poll available is true and the cache is the
\* translation of the device response: power = state.on, brightness =
\* state.bri, rgb_color = seg[0].col[0] when segment 0 has a colour, effect
\* = EFFECT_LIST[seg[0].fx] when the index is in 0..len-1 (fx = 5 gives
\* "Entropy Engine").
C6_SuccessfulPollTranslates ==
    (last.op = "poll" /\ last.result = "ok")
    => /\ _available = TRUE
       /\ HasRequiredKeys(last.outcome)
       /\ _state = last.outcome.data.state.on
       /\ _brightness = last.outcome.data.state.bri
       /\ HasSegment(last.outcome) =>
            LET seg0 == last.outcome.data.state.seg[1] IN
            /\ ("col" \in DOMAIN seg0 /\ Len(seg0.col) > 0)
                 => _rgb_color = seg0.col[1]
            /\ ("fx" \in DOMAIN seg0 /\ seg0.fx >= 0 /\ seg0.fx < Len(EFFECT_LIST))
                 => _effect = EFFECT_LIST[seg0.fx + 1]
            /\ ("fx" \in DOMAIN seg0 /\ seg0.fx = 5)
                 => _effect = "Entropy Engine"

\* the poll of scenario 1 completed on a cache that held other values
C6_Witness ==
    /\ last.op = "poll"
    /\ last.result = "ok"
    /\ last.outcome.data.state = [on |-> TRUE, bri |-> 200,
                                  seg |-> <<[col |-> <<Red>>, fx |-> 5]>>]
    /\ last.pre = [state |-> FALSE, brightness |-> DefaultBrightness,
                   effect |-> None, rgb_color |-> White, available |-> FALSE]
    /\ Snapshot = [state |-> TRUE, brightness |-> 200, effect |-> "Entropy Engine",
                   rgb_color |-> Red, available |-> TRUE]

\* C7: for every reported effect index outside 0..len(EFFECT_LIST)-1 (the
\* catalog length, 9999, negative indices) the poll completes as a
\* successful poll and the cached effect keeps its previous value (or is
\* "Unknown").
C7_OutOfRangeFxRetainsEffect ==
    (/\ last.op = "poll"
     /\ HasSegment(last.outcome)
     /\ "fx" \in DOMAIN last.outcome.data.state.seg[1]
     /\ LET fx == last.outcome.data.state.seg[1].fx
        IN  fx < 0 \/ fx >= Len(EFFECT_LIST))
    => /\ last.result = "ok"
       /\ _effect \in {last.pre.effect, "Unknown"}

\* C8: whatever fault a poll, turn_on or turn_off ran into, the operation
\* returned normally: no exception escaped into the host.
C8_NoExceptionEscapes ==
    /\ escaped = FALSE
    /\ last.op # "none" => last.result \in {"ok", "failed"}

\* a turn_on got HTTP 200 with a body that is not JSON, and a poll got a
\* body without "state": faults only the catch-all clauses handle
C8_Witness ==
    \/ /\ last.op = "turn_on"
       /\ last.outcome.kind = "response"
       /\ last.outcome.body_exc = "JSONDecodeError"
       /\ last.result = "failed"
    \/ /\ last.op = "poll"
       /\ last.outcome.kind = "json"
       /\ "state" \notin DOMAIN last.outcome.data
       /\ last.result = "failed"

\* C9: at most one network operation for the device endpoint is in flight
\* at any time.
C9_AtMostOneInFlight == InFlightCount <= 1

C13_EffectResolvedOrOmitted ==
    \A t \in BagToSet(inflight) :
        (t.op = "turn_on" /\ "effect" \in DOMAIN t.kwargs)
        => /\ t.reqs = <<"POST">>
           /\ t.data.on = TRUE
           /\ IF \E i \in 1..Len(EFFECT_LIST) : EFFECT_LIST[i] = t.kwargs.effect
              THEN /\ "seg" \in DOMAIN t.data
                   /\ Len(t.data.seg) = 1
                   /\ DOMAIN t.data.seg[1] = {"fx"}
                   /\ t.data.seg[1].fx \in 0..(Len(EFFECT_LIST) - 1)
                   /\ EFFECT_LIST[t.data.seg[1].fx + 1] = t.kwargs.effect
              ELSE "seg" \notin DOMAIN t.data

\* one turn_on with an unknown name and one with a catalog name are both
\* suspended at their POST
C13_Witness ==
    /\ \E t \in BagToSet(inflight) :
          /\ t.op = "turn_on"
          /\ t.kwargs = [effect |-> "Bogus"]
          /\ t.data = [on |-> TRUE, bri |-> DefaultBrightness]
    /\ \E t \in BagToSet(inflight) :
          /\ t.op = "turn_on"
          /\ t.kwargs = [effect |-> "Entropy Engine"]
          /\ t.data.seg = <<[fx |-> 5]>>

\* the body a turn_off sends is exactly {"on": false} plus the transition
\* when one was given
TurnOffBodyExact ==
    \A t \in BagToSet(inflight) :
        t.op = "turn_off"
        => t.data = (IF "transition" \in DOMAIN t.kwargs
                     THEN [on |-> FALSE, transition |-> t.kwargs.transition]
                     ELSE [on |-> FALSE])

\* after the last turn_off power is false and the other attributes are
\* those from before it
TurnOffFrame ==
    /\ _state = FALSE
    /\ _brightness = last.pre.brightness
    /\ _rgb_color = last.pre.rgb_color
    /\ _effect = last.pre.effect

C15_RepeatedPollIdempotent ==
    [][ (/\ last.op = "poll"
         /\ last.result = "ok"
         /\ InFlightCount' < InFlightCount
         /\ last'.op = "poll"
         /\ last'.result = "ok"
         /\ last'.outcome = last.outcome)
        => Snapshot' = Snapshot ]_vars

\* two operations ran, the second a successful poll of scenario 1's body on
\* a cache that only a poll of that same body can have produced
C15_Witness ==
    /\ invoked = 2
    /\ InFlightCount = 0
    /\ last.op = "poll"
    /\ last.result = "ok"
    /\ last.outcome.data.state = [on |-> TRUE, bri |-> 200,
                                  seg |-> <<[col |-> <<Red>>, fx |-> 5]>>]
    /\ last.pre = [state |-> TRUE, brightness |-> 200, effect |-> "Entropy Engine",
                   rgb_color |-> Red, available |-> TRUE]
    /\ Snapshot = last.pre

\* C17: for every response that carries state.on and state.bri, whatever
\* optional parts it has, the poll ends as a successful poll with
\* available true.
C17_PollTotalOnValidBodies ==
    (last.op = "poll" /\ HasRequiredKeys(last.outcome))
    => (last.result = "ok" /\ _available = TRUE)

\* C18: the cached effect is None or a member of EFFECT_LIST.
C18_CachedEffectInCatalog ==
    \/ _effect = None
    \/ \E i \in 1..Len(EFFECT_LIST) : EFFECT_LIST[i] = _effect

\* C16: for every name in EFFECT_LIST, looking up its index and mapping the
\* index back returns the same name; the catalog has no duplicate names, so
\* index and name determine each other.
C16_CatalogRoundTrip ==
    /\ lookup.stage = "named" => lookup.back = lookup.name
    /\ lookup.stage \in {"indexed", "named"}
          => /\ lookup.index \in 0..(Len(EFFECT_LIST) - 1)
             /\ \A i \in 1..Len(EFFECT_LIST) :
                   EFFECT_LIST[i] = lookup.name <=> i = lookup.index + 1

\* the round trip was made for the last name of the catalog, index 97
C16_Witness ==
    /\ lookup.stage = "named"
    /\ lookup.name = "Spectral Resonator"
    /\ lookup.index = 97
    /\ lookup.back = "Spectral Resonator"

\* C11: the session created at construction is closed exactly once:
\* after teardown it is closed, close() is not awaited a second time when
\* the removal hook runs again, and no GET/POST is made on it once closed.
C11_SessionClosedExactlyOnce ==
    /\ removals > 0 => _session = "closed"
    /\ close_calls <= 1
    /\ used_closed = FALSE

\* no request is pending at the device and no reply is on its way
Quiescent == BagCardinality(inflight) = 0 /\ BagCardinality(replies) = 0

\* C19: when a poll and a command overlap, a poll reply the device produced
\* before it handled the command does not overwrite what the command's
\* completion cached: once every operation has finished, a cache last
\* written by a poll agrees with the device's final state.
C19_StalePollNeverOverwrites ==
    (Quiescent /\ last.op = "poll" /\ last.result = "ok")
    => /\ _state = device.on
       /\ _brightness = device.bri
       /\ _effect = EFFECT_LIST[device.fx + 1]

\* the validation GET succeeded: a success status and a parsable body
ValidationSucceeded(out) ==
    out.kind = "response" /\ out.status = 200 /\ out.body_exc = "none"

\* C12: the config flow creates an entry only when the validation GET
\* succeeded; for every non-success status and every exception the step
\* returns the form with error key cannot_connect and creates no entry.
C12_EntryOnlyAfterSuccessfulGet ==
    (flow.type # "none" /\ flow.input # None)
    => /\ flow.type = "create_entry" => ValidationSucceeded(flow.outcome)
       /\ ~ValidationSucceeded(flow.outcome)
             => /\ flow.type = "form"
                /\ flow.errors = [base |-> "cannot_connect"]
                /\ entries = flow.before

\* C20: async_unload_entry called after async_setup_entry raises no
\* exception and returns the light platform's unload result; when the
\* platform unload succeeded no data for the entry remains under
\* hass.data[DOMAIN].
C20_UnloadReturnsPlatformResult ==
    last_unload.entry # "none"
    => /\ last_unload.raised = FALSE
       /\ last_unload.ret = last_unload.unload_ok
       /\ last_unload.unload_ok => last_unload.entry \notin hass_data[DOMAIN_NAME]

====
